---- MODULE Spec2Model ----
(***************************************************************************)
(* DefectDoc of atomate2.cp2k.schemas.defect: the per-run-type "best of    *)
(* many" record of one point defect, built by from_tasks and extended by   *)
(* update_one / update_many.                                               *)
(*                                                                         *)
(* Scaling: energies are integers in units of 0.1 eV (-50.3 eV is -503),   *)
(* displacements in units of 0.01 (the threshold 0.02 is 2), timestamps    *)
(* are the number of datetime.now() calls made so far.  A structure is its  *)
(* site count and, for the sites a task lists, one coordinate along an     *)
(* axis of a cubic cell: fractional coordinates are in quarters of the     *)
(* cell edge, Cartesian coordinates and radii in units of 0.25 Angstrom,   *)
(* and a lattice is its edge in Angstrom.  A Python dict is a              *)
(* function whose DOMAIN is its key set; task_ids, a Python list whose     *)
(* order no code reads, is a bag (element -> number of occurrences).       *)
(* An exception is the "error" field of an operation's result; the object  *)
(* state at the raise is the "self" field next to it.                      *)
(*                                                                         *)
(* Four specifications: Spec drives one DefectDoc through from_tasks,      *)
(* update_one and update_many; SpecEntry applies the functions of the      *)
(* defect entry builder (parameters, corrections, validation) to a drawn   *)
(* triple and steps through the 2-D correction; SpecMaterial applies       *)
(* DefectiveMaterialDoc to a drawn list of member documents; SpecBatch     *)
(* runs update_many next to a caller's loop of update_one calls.           *)
(***************************************************************************)
EXTENDS Integers, Sequences, FiniteSets, Bags, TLC

\* Bounds of the exploration.
MaxCalls == 3
MaxBatch == 2

\* DefectValidation thresholds (scaled, see above).
MAX_ATOMIC_RELAXATION == 2
DESORPTION_DISTANCE == 3

VARIABLES
    created,    \* TRUE once from_tasks has returned a DefectDoc
    doc,        \* the DefectDoc (its fields), meaningful when created
    now,        \* the clock: the value the next datetime.now() returns
    calls,      \* operations invoked so far
    merged,     \* the candidates that from_tasks installed or update_one
                \* built and compared
    last,       \* the last operation: its name, its defect task id (single
                \* triple), the exception it ended with, the number n of
                \* zipped triples, the number done of them it took up, and
                \* repeat: its candidate had been compared before
    arg,        \* SpecEntry, SpecMaterial: the arguments drawn for the calls
    ret,        \* SpecEntry, SpecMaterial: the last call and what it gave
    scratch     \* SpecEntry: the position inside get_freysoldt2d_correction,
                \* the state of its ScratchDir and the parameters dict it
                \* was given, as the call has left it so far

docvars == <<created, doc, now, calls, merged, last>>
fnvars == <<arg, ret, scratch>>
vars == <<created, doc, now, calls, merged, last, arg, ret, scratch>>

----------------------------------------------------------------------------
\* Python dicts.

EmptyDict == [k \in {} |-> 0]

DictSet(d, k, v) == [x \in (DOMAIN d) \cup {k} |-> IF x = k THEN v ELSE d[x]]

DictUpdate(d, e) ==
    [x \in (DOMAIN d) \cup (DOMAIN e) |-> IF x \in DOMAIN e THEN e[x] ELSE d[x]]

----------------------------------------------------------------------------
\* The task records the operations are given.

RunTypes == {"PBE", "HSE06"}

\* A defect task: the stored task dict (task_id, the serialized defect under
\* "defect", the TaskDocument under "output").
DT(id, defect, rt, n, n0, e, q, disp) ==
    [task_id |-> id, defect |-> defect, run_type |-> rt,
     num_atoms |-> n,       \* sites of the final defect structure
     n_initial |-> n0,      \* sites of the input (initial) defect structure
     energy |-> e,          \* output.energy
     charge |-> q,          \* output.structure.charge
     lattice |-> 4,         \* cell edge of the defect calculation
     frac_coords |-> <<0, 2>>,  \* fractional coordinate of every listed site
     displacements |-> <<disp, disp>>,  \* site.distance(in_struc[i])
     cutoff |-> 1,          \* get_truncated_coulomb_cutoff(in_struc)
     finder_fpos |-> 2,     \* what DefectSiteFinder.get_defect_fpos finds
     adsorbate |-> FALSE,   \* isinstance(defect, Adsorbate)
     distances |-> <<2, 4>>,    \* from the defect site to every other site
     site_properties |-> {"ghost"}, \* names of the site properties
     ghost |-> <<FALSE, TRUE>>,     \* site property "ghost", a value per site
     tags |-> {}]           \* task tags

DefectTasks ==
    { DT("d1", "v_O", "PBE", 32, 32, -501, 0, 1),
      DT("d2", "v_O", "PBE", 64, 64, -500, 0, 3),
      DT("d3", "v_O", "PBE", 64, 64, -503, 0, 1),
      DT("d4", "v_O", "PBE", 64, 64, -503, 0, 2),
      DT("d5", "v_O", "HSE06", 32, 32, -520, 0, 1),
      DT("d6", "v_O", "PBE", 64, 64, -510, 1, 1),
      DT("d7", "N_O", "PBE", 64, 64, -504, 0, 1) }

\* A bulk task.  has_vbm: whether the parsed output object exposes .vbm.
\* OutputSummary declares no vbm field, so a TaskDocument parsed from a
\* stored dict does not (b2); b1 is an output object that carries one.
BulkTasks ==
    { [task_id |-> "b1", energy |-> -600, num_atoms |-> 64, lattice |-> 4,
       has_vbm |-> TRUE, vbm |-> 5],
      [task_id |-> "b2", energy |-> -601, num_atoms |-> 64, lattice |-> 4,
       has_vbm |-> FALSE, vbm |-> 0] }

\* dielectric: None, or a tensor (8.9 * I).
Dielectrics == {"None", "eps"}

----------------------------------------------------------------------------
\* Defect Entry Builder: get_parameters_from_tasks, the correction
\* strategies, DefectValidation, get_defect_entry_from_tasks.

\* unpack(query.split("."), task) with the default query "defect".
get_defect_from_task(task) == task.defect

\* Structure.site_properties.get("ghost"): the list of the property's values,
\* one per site, or None when the structure has no such property.
site_property(defect_task, name) ==
    IF name \in defect_task.site_properties
    THEN [is_none |-> FALSE, value |-> defect_task.ghost]
    ELSE [is_none |-> TRUE, value |-> <<>>]

\* [index for index, prop in enumerate(props) if prop]
truthy_indices(props) == { i \in 1..Len(props) : props[i] }

\* ghost[0]: the list comprehension keeps the indices in increasing order.
first_index(indices) == CHOOSE i \in indices : \A j \in indices : i <= j

\* The parameter bundle.  "dielectric" is "absent" until the caller sets the
\* key; "2d" is the key's truth value (absent reads as False through .get).
\* The fractional coordinate is that of site ghost[0], or what
\* DefectSiteFinder.get_defect_fpos (a collaborator) finds.  The two
\* potential volumes are decoded afresh; each one's structure has the
\* lattice of its calculation.
get_parameters_from_tasks(defect_task, bulk_task) ==
    LET props == site_property(defect_task, "ghost")
        ghost == truthy_indices(props.value)
    IN  IF props.is_none    \* enumerate(None)
        THEN [error |-> "TypeError", parameters |-> EmptyDict]
        ELSE [error |-> "none",
              parameters |->
                [defect_energy |-> defect_task.energy,
                 bulk_energy |-> bulk_task.energy,
                 initial_defect_structure |-> defect_task.n_initial,
                 final_defect_structure |-> defect_task.num_atoms,
                 charge_state |-> defect_task.charge,
                 lattice |-> defect_task.lattice,
                 frac_coords |-> defect_task.frac_coords,
                 displacements |-> defect_task.displacements,
                 cutoff |-> defect_task.cutoff,
                 defect_frac_sc_coords |->
                    IF ghost # {}
                    THEN defect_task.frac_coords[first_index(ghost)]
                    ELSE defect_task.finder_fpos,
                 defect_v_hartree |-> [lattice |-> defect_task.lattice],
                 bulk_v_hartree |-> [lattice |-> bulk_task.lattice],
                 distances |-> defect_task.distances,
                 is2d |-> "2d" \in defect_task.tags,
                 dielectric |-> "absent",
                 defect |-> "absent"]]

\* pymatgen's correction routines are collaborators: their result is the tag
\* of the routine with the arguments it was given.
Freysoldt(kind, parameters) ==
    [k \in {"freysoldt"} |->
        <<kind, parameters.charge_state, parameters.dielectric>>]

FreysoldtMetadata(kind) == [k \in {"plot_data"} |-> kind]

\* The guards of lines 267 and 285.
applies_3d(parameters) == parameters.charge_state # 0 /\ ~parameters.is2d
applies_2d(parameters) == parameters.charge_state # 0 /\ parameters.is2d

get_freysoldt_correction(parameters) ==
    IF applies_3d(parameters)
    THEN IF parameters.dielectric = "absent"
         THEN [error |-> "KeyError", corr |-> EmptyDict, met |-> EmptyDict]
         ELSE [error |-> "none", corr |-> Freysoldt("3d", parameters),
               met |-> FreysoldtMetadata("3d")]
    ELSE [error |-> "none", corr |-> EmptyDict, met |-> EmptyDict]

\* A variant of get_freysoldt2d_correction whose guard tests only the charge.
get_freysoldt2d_correction_any_dimension(parameters) ==
    IF parameters.charge_state # 0
    THEN IF parameters.dielectric = "absent"
         THEN [error |-> "KeyError", corr |-> EmptyDict, met |-> EmptyDict]
         ELSE [error |-> "none", corr |-> Freysoldt("2d", parameters),
               met |-> FreysoldtMetadata("2d")]
    ELSE [error |-> "none", corr |-> EmptyDict, met |-> EmptyDict]

\* The result of a call in which neither the potential files nor the
\* correction routine fail (the steps of the call are Enter2d .. Routine2d
\* below).
get_freysoldt2d_correction(parameters) ==
    IF applies_2d(parameters)
    THEN IF parameters.dielectric = "absent"
         THEN [error |-> "KeyError", corr |-> EmptyDict, met |-> EmptyDict]
         ELSE [error |-> "none", corr |-> Freysoldt("2d", parameters),
               met |-> FreysoldtMetadata("2d")]
    ELSE [error |-> "none", corr |-> EmptyDict, met |-> EmptyDict]

\* The loop of lines 259-262 over the two strategies, in list order; parts
\* keeps what each strategy returned.
get_correction_from_parameters(parameters) ==
    LET c3 == get_freysoldt_correction(parameters)
        c2 == get_freysoldt2d_correction(parameters)
    IN  IF c3.error # "none"
        THEN [error |-> c3.error, corrections |-> EmptyDict,
              metadata |-> EmptyDict, parts |-> <<c3>>]
        ELSE IF c2.error # "none"
        THEN [error |-> c2.error, corrections |-> EmptyDict,
              metadata |-> EmptyDict, parts |-> <<c3, c2>>]
        ELSE [error |-> "none",
              corrections |-> DictUpdate(DictUpdate(EmptyDict, c3.corr), c2.corr),
              metadata |-> DictUpdate(DictUpdate(EmptyDict, c3.met), c2.met),
              parts |-> <<c3, c2>>]

\* Lattice.get_cartesian_coords of a cubic cell.
get_cartesian_coords(lattice, fractional_coords) == lattice * fractional_coords

\* The distance from a site to the nearest periodic image of the point pt
\* (both Cartesian); the cell is 4 * lattice long.
distance_to_image(lattice, x, pt) ==
    LET d == (x - pt) % (4 * lattice)
    IN  IF d <= 4 * lattice - d THEN d ELSE 4 * lattice - d

\* Structure.get_sites_in_sphere(pt, r): the indices of the sites within r
\* of the Cartesian point pt.
get_sites_in_sphere(parameters, pt, r) ==
    { i \in 1..Len(parameters.frac_coords) :
        distance_to_image(parameters.lattice,
            get_cartesian_coords(parameters.lattice, parameters.frac_coords[i]),
            pt) <= r }

\* Lines 411-416: the point handed to get_sites_in_sphere is
\* parameters["defect_frac_sc_coords"] itself.
relaxation_center(parameters) == parameters.defect_frac_sc_coords

inside_sphere(parameters) ==
    get_sites_in_sphere(parameters, relaxation_center(parameters),
                        parameters.cutoff)

\* Line 417.
outside_sphere(parameters) ==
    (1..Len(parameters.frac_coords)) \ inside_sphere(parameters)

\* Lines 431-433: the point _desorption hands to get_sites_in_sphere.
desorption_center(parameters) ==
    get_cartesian_coords(parameters.lattice, parameters.defect_frac_sc_coords)

\* The sum of values[i] over the indices i.
RECURSIVE sum_over(_, _)
sum_over(values, indices) ==
    IF indices = {} THEN 0
    ELSE LET i == CHOOSE j \in indices : TRUE
         IN  values[i] + sum_over(values, indices \ {i})

\* np.mean(distances[outside_sphere]) > bound; the mean of no value is nan,
\* which is greater than nothing.
mean_exceeds(values, indices, bound) ==
    /\ indices # {}
    /\ sum_over(values, indices) > bound * Cardinality(indices)

\* A variant of atomic_relaxation that fails a mean equal to the threshold.
atomic_relaxation_strict(parameters) ==
    IF parameters.initial_defect_structure < parameters.final_defect_structure
    THEN [error |-> "IndexError", flag |-> FALSE,
          inside_sphere |-> inside_sphere(parameters)]
    ELSE [error |-> "none",
          flag |-> ~(\/ mean_exceeds(parameters.displacements,
                                     outside_sphere(parameters),
                                     MAX_ATOMIC_RELAXATION)
                     \/ /\ outside_sphere(parameters) # {}
                        /\ sum_over(parameters.displacements,
                                    outside_sphere(parameters))
                             = MAX_ATOMIC_RELAXATION
                               * Cardinality(outside_sphere(parameters))),
          inside_sphere |-> inside_sphere(parameters)]

\* in_struc[i] for every site index i of out_struc (lines 418-420):
\* IndexError when the initial structure is the shorter one, and no error
\* when it is the longer one.
atomic_relaxation(parameters) ==
    IF parameters.initial_defect_structure < parameters.final_defect_structure
    THEN [error |-> "IndexError", flag |-> FALSE,
          inside_sphere |-> inside_sphere(parameters)]
    ELSE [error |-> "none",
          flag |-> ~mean_exceeds(parameters.displacements,
                                 outside_sphere(parameters),
                                 MAX_ATOMIC_RELAXATION),
          inside_sphere |-> inside_sphere(parameters)]

\* A variant of desorption that tests any(...) instead of all(...).
desorption_any(parameters) ==
    IF /\ parameters.defect.adsorbate
       /\ \E i \in 1..Len(parameters.distances) :
              parameters.distances[i] > DESORPTION_DISTANCE
    THEN FALSE
    ELSE TRUE

\* distances: from the defect site to every other site of the final
\* structure.
desorption(parameters) ==
    IF /\ parameters.defect.adsorbate
       /\ \A i \in 1..Len(parameters.distances) :
              parameters.distances[i] > DESORPTION_DISTANCE
    THEN FALSE
    ELSE TRUE

\* A variant of process_entry that skips the desorption check of an entry
\* that failed the relaxation check.
process_entry_first_failure(parameters) ==
    LET a == atomic_relaxation(parameters)
    IN  IF a.error # "none" THEN [error |-> a.error, v |-> EmptyDict]
        ELSE IF ~a.flag
        THEN [error |-> "none", v |-> [k \in {"atomic_relaxation"} |-> FALSE]]
        ELSE [error |-> "none",
              v |-> [k \in {"atomic_relaxation", "desorption"} |->
                        IF k = "atomic_relaxation" THEN a.flag
                        ELSE desorption(parameters)]]

process_entry(parameters) ==
    LET a == atomic_relaxation(parameters)
    IN  IF a.error # "none" THEN [error |-> a.error, v |-> EmptyDict]
        ELSE [error |-> "none",
              v |-> [k \in {"atomic_relaxation", "desorption"} |->
                        IF k = "atomic_relaxation" THEN a.flag
                        ELSE desorption(parameters)]]

NoEntry == [defect |-> "none", charge_state |-> 0,
            sc_entry |-> [num_atoms |-> 0, energy |-> 0],
            sc_defect_frac_coords |-> 0, corrections |-> EmptyDict]

\* Returns (defect_entry, valid), or raises.
get_defect_entry_from_tasks(defect_task, bulk_task, defect, dielectric) ==
    LET p0 == get_parameters_from_tasks(defect_task, bulk_task)
        p1 == IF dielectric # "None"
              THEN [p0.parameters EXCEPT !.dielectric = dielectric]
              ELSE p0.parameters
        c  == get_correction_from_parameters(p1)
        defect_entry ==
            [defect |-> defect,
             charge_state |-> p1.charge_state,
             sc_entry |-> [num_atoms |-> p1.final_defect_structure,
                           energy |-> p1.defect_energy],
             sc_defect_frac_coords |-> p1.defect_frac_sc_coords,
             corrections |-> c.corrections]
        p2 == [p1 EXCEPT !.defect = [name |-> defect,
                                     adsorbate |-> defect_task.adsorbate]]
        v  == process_entry(p2)
    IN  IF p0.error # "none"
        THEN [error |-> p0.error, defect_entry |-> NoEntry, valid |-> EmptyDict]
        ELSE IF c.error # "none"
        THEN [error |-> c.error, defect_entry |-> NoEntry, valid |-> EmptyDict]
        ELSE IF v.error # "none"
        THEN [error |-> v.error, defect_entry |-> NoEntry, valid |-> EmptyDict]
        ELSE [error |-> "none", defect_entry |-> defect_entry, valid |-> v.v]

get_bulk_entry_from_task(bulk_task) ==
    [structure |-> bulk_task.num_atoms, energy |-> bulk_task.energy]

----------------------------------------------------------------------------
\* DefectDoc.

MaterialIds == {"mp-1"}

\* The fields before from_tasks has built a document.
NoDoc ==
    [defect |-> "none", charge |-> 0, name |-> "none", material_id |-> "none",
     defect_ids |-> EmptyDict, bulk_ids |-> EmptyDict, task_ids |-> EmptyBag,
     defect_entries |-> EmptyDict, bulk_entries |-> EmptyDict,
     vbm |-> EmptyDict, last_updated |-> 0, created_at |-> 0,
     metadata |-> EmptyDict, valid |-> EmptyDict]

\* What one (defect task, bulk task, dielectric) triple contributes once its
\* entry is built: the values lines 115-120 write for its run type.
Candidate(defect_task, bulk_task, built) ==
    [run_type |-> defect_task.run_type,
     defect_entry |-> built.defect_entry,
     defect_id |-> defect_task.task_id,
     bulk_entry |-> get_bulk_entry_from_task(bulk_task),
     bulk_id |-> bulk_task.task_id,
     has_vbm |-> bulk_task.has_vbm,
     vbm |-> bulk_task.vbm,
     valid |-> built.valid]

\* A variant of task_ids_with that appends: self.task_ids + [d_id].
task_ids_appended(task_ids, d_id) == task_ids (+) SetToBag({d_id})

\* list(set(self.task_ids) | {d_id})
task_ids_with(task_ids, d_id) == SetToBag(BagToSet(task_ids) \cup {d_id})

\* Variants of the comparison below: the energy test without the equal
\* atom count, the energy test reversed, and the energy test with <=.
replaces_lower_energy(self, rt, defect_entry) ==
    LET current_largest_sc ==
            IF rt \in DOMAIN self.defect_entries
            THEN self.defect_entries[rt].sc_entry.num_atoms
            ELSE 0
    IN  \/ defect_entry.sc_entry.num_atoms > current_largest_sc
        \/ /\ rt \in DOMAIN self.defect_entries
           /\ defect_entry.sc_entry.energy < self.defect_entries[rt].sc_entry.energy

replaces_higher_energy(self, rt, defect_entry) ==
    LET current_largest_sc ==
            IF rt \in DOMAIN self.defect_entries
            THEN self.defect_entries[rt].sc_entry.num_atoms
            ELSE 0
    IN  \/ defect_entry.sc_entry.num_atoms > current_largest_sc
        \/ /\ defect_entry.sc_entry.num_atoms = current_largest_sc
           /\ rt \in DOMAIN self.defect_entries
           /\ defect_entry.sc_entry.energy > self.defect_entries[rt].sc_entry.energy

replaces_on_tie(self, rt, defect_entry) ==
    LET current_largest_sc ==
            IF rt \in DOMAIN self.defect_entries
            THEN self.defect_entries[rt].sc_entry.num_atoms
            ELSE 0
    IN  \/ defect_entry.sc_entry.num_atoms > current_largest_sc
        \/ /\ defect_entry.sc_entry.num_atoms = current_largest_sc
           /\ rt \in DOMAIN self.defect_entries
           /\ defect_entry.sc_entry.energy <= self.defect_entries[rt].sc_entry.energy

\* The comparison of lines 105-114; self.defect_entries[rt] of a run type
\* with no entry is a KeyError (only reached with a candidate of 0 atoms).
replaces(self, rt, defect_entry) ==
    LET current_largest_sc ==
            IF rt \in DOMAIN self.defect_entries
            THEN self.defect_entries[rt].sc_entry.num_atoms
            ELSE 0
        potential_largest_sc == defect_entry.sc_entry.num_atoms
    IN  \/ potential_largest_sc > current_largest_sc
        \/ /\ potential_largest_sc = current_largest_sc
           /\ rt \in DOMAIN self.defect_entries
           /\ defect_entry.sc_entry.energy < self.defect_entries[rt].sc_entry.energy

\* A variant of refresh_timestamps that leaves last_updated alone.
refresh_created_only(self, clock) ==
    [self EXCEPT !.created_at = clock + 1]

\* Lines 89-90: both timestamps are assigned datetime.now(), one call each.
refresh_timestamps(self, clock) ==
    [self EXCEPT !.last_updated = clock, !.created_at = clock + 1]

\* Variants of install_entries: one that rebuilds each map with the
\* candidate's run type as its only key, and one that also takes the
\* document's charge, defect and name from the installed entry.
install_entries_alone(self, rt, candidate) ==
    [self EXCEPT
       !.defect_entries = [k \in {rt} |-> candidate.defect_entry],
       !.defect_ids = [k \in {rt} |-> candidate.defect_id],
       !.bulk_entries = [k \in {rt} |-> candidate.bulk_entry],
       !.bulk_ids = [k \in {rt} |-> candidate.bulk_id]]

install_entries_renaming(self, rt, candidate) ==
    [self EXCEPT
       !.defect_entries = DictSet(@, rt, candidate.defect_entry),
       !.defect_ids = DictSet(@, rt, candidate.defect_id),
       !.bulk_entries = DictSet(@, rt, candidate.bulk_entry),
       !.bulk_ids = DictSet(@, rt, candidate.bulk_id),
       !.charge = candidate.defect_entry.charge_state,
       !.defect = candidate.defect_entry.defect,
       !.name = candidate.defect_entry.defect]

\* Lines 115-118: the four assignments before bulk_task.output.vbm is read.
install_entries(self, rt, candidate) ==
    [self EXCEPT
       !.defect_entries = DictSet(@, rt, candidate.defect_entry),
       !.defect_ids = DictSet(@, rt, candidate.defect_id),
       !.bulk_entries = DictSet(@, rt, candidate.bulk_entry),
       !.bulk_ids = DictSet(@, rt, candidate.bulk_id)]

\* A variant of install_outcome that keeps a stored outcome whose flags are
\* all True.
install_outcome_keeping_valid(self, rt, candidate) ==
    [self EXCEPT
       !.vbm = DictSet(@, rt, candidate.vbm),
       !.valid = IF /\ rt \in DOMAIN self.valid
                    /\ \A f \in DOMAIN self.valid[rt] : self.valid[rt][f]
                 THEN @
                 ELSE DictSet(@, rt, candidate.valid)]

\* Lines 119-120, reached when bulk_task.output has a vbm.
install_outcome(self, rt, candidate) ==
    [self EXCEPT
       !.vbm = DictSet(@, rt, candidate.vbm),
       !.valid = DictSet(@, rt, candidate.valid)]

\* update_one on document self at clock value clock: the document and the
\* clock it leaves, and the exception it ends with ("none": it returns).
\* compared holds the candidate when its entry was built and the comparison
\* of line 111 was reached.
update_one(self, clock, defect_task, bulk_task, dielectric) ==
    LET s1 == refresh_timestamps(self, clock)
        defect == get_defect_from_task(defect_task)
        d_id == defect_task.task_id
        built == get_defect_entry_from_tasks(defect_task, bulk_task, defect, dielectric)
        rt == defect_task.run_type
        candidate == Candidate(defect_task, bulk_task, built)
        s2 == install_entries(s1, rt, candidate)
        s3 == install_outcome(s2, rt, candidate)
    IN  IF built.error # "none"
        THEN [self |-> s1, clock |-> clock + 2, error |-> built.error,
              compared |-> {}]
        ELSE IF replaces(s1, rt, built.defect_entry)
        THEN IF ~bulk_task.has_vbm
             THEN [self |-> s2, clock |-> clock + 2, error |-> "AttributeError",
                   compared |-> {candidate}]
             ELSE [self |-> [s3 EXCEPT !.task_ids = task_ids_with(@, d_id)],
                   clock |-> clock + 2, error |-> "none",
                   compared |-> {candidate}]
        ELSE [self |-> [s1 EXCEPT !.task_ids = task_ids_with(@, d_id)],
              clock |-> clock + 2, error |-> "none",
              compared |-> {candidate}]

\* zip(defect_tasks, bulk_tasks, dielectrics)
Min(a, b) == IF a < b THEN a ELSE b

\* A variant of zip that stops one triple early.
zip_truncated(defect_tasks, bulk_tasks, dielectrics) ==
    [i \in 1..(Min(Len(defect_tasks), Min(Len(bulk_tasks), Len(dielectrics))) - 1) |->
        <<defect_tasks[i], bulk_tasks[i], dielectrics[i]>>]

zip(defect_tasks, bulk_tasks, dielectrics) ==
    [i \in 1..Min(Len(defect_tasks), Min(Len(bulk_tasks), Len(dielectrics))) |->
        <<defect_tasks[i], bulk_tasks[i], dielectrics[i]>>]

\* update_many: update_one on each zipped triple in list order; an exception
\* of update_one leaves the loop.  done counts the update_one invocations.
RECURSIVE update_many_from(_, _, _, _, _)

\* The loop once the update_one call on triple i has ended with r.
update_many_after(r, triples, i, compared) ==
    IF r.error # "none"
    THEN [self |-> r.self, clock |-> r.clock, error |-> r.error,
          done |-> i, compared |-> compared \cup r.compared]
    ELSE update_many_from(r.self, r.clock, triples, i + 1,
                          compared \cup r.compared)

update_many_from(self, clock, triples, i, compared) ==
    IF i > Len(triples)
    THEN [self |-> self, clock |-> clock, error |-> "none", done |-> i - 1,
          compared |-> compared]
    ELSE update_many_after(
             update_one(self, clock, triples[i][1], triples[i][2], triples[i][3]),
             triples, i, compared)

update_many(self, clock, defect_tasks, bulk_tasks, dielectrics) ==
    update_many_from(self, clock, zip(defect_tasks, bulk_tasks, dielectrics), 1, {})

\* "intrinsic" when every changed element is an element of the host.
defect_origin(defect) == IF defect = "N_O" THEN "extrinsic" ELSE "intrinsic"

\* from_tasks: the document it returns, or the exception it raises.
from_tasks(clock, defect_task, bulk_task, dielectric, material_id) ==
    LET defect_task_id == defect_task.task_id
        defect == get_defect_from_task(defect_task)
        bulk_task_id == bulk_task.task_id
        last_updated == clock
        created_at == clock + 1
        rt == defect_task.run_type
        built == get_defect_entry_from_tasks(defect_task, bulk_task, defect, dielectric)
        defect_entries == [k \in {rt} |-> built.defect_entry]
        data ==
            [defect_entries |-> defect_entries,
             bulk_entries |-> [k \in {rt} |-> get_bulk_entry_from_task(bulk_task)],
             defect_ids |-> [k \in {rt} |-> defect_task_id],
             bulk_ids |-> [k \in {rt} |-> bulk_task_id],
             last_updated |-> last_updated,
             created_at |-> created_at,
             task_ids |-> SetToBag({defect_task_id}),
             material_id |-> material_id,
             defect |-> defect_entries[rt].defect,
             charge |-> defect_entries[rt].charge_state,
             name |-> defect_entries[rt].defect,
             vbm |-> [k \in {rt} |-> bulk_task.vbm],
             metadata |-> [k \in {"defect_origin"} |->
                            defect_origin(defect_entries[rt].defect)],
             valid |-> [k \in {rt} |-> built.valid]]
    IN  IF built.error # "none"
        THEN [self |-> NoDoc, clock |-> clock + 2, error |-> built.error,
              compared |-> {}]
        ELSE IF ~bulk_task.has_vbm
        THEN [self |-> NoDoc, clock |-> clock + 2, error |-> "AttributeError",
              compared |-> {}]
        ELSE [self |-> data, clock |-> clock + 2, error |-> "none",
              compared |-> {Candidate(defect_task, bulk_task, built)}]

----------------------------------------------------------------------------------------------------------------------------------------
\* The state machine.

NoCall == [op |-> "none", d_id |-> "none", error |-> "none", n |-> 0, done |-> 0,
           repeat |-> FALSE]

\* No arguments drawn, no call made, get_freysoldt2d_correction not entered.
NoArg == [kind |-> "none"]
NoRet == [op |-> "none", error |-> "none"]
NoScratch == [pc |-> "idle", dir |-> "none", error |-> "none",
              parameters |-> EmptyDict]

Init ==
    /\ created = FALSE
    /\ doc = NoDoc
    /\ now = 1
    /\ calls = 0
    /\ merged = {}
    /\ last = NoCall
    /\ arg = NoArg
    /\ ret = NoRet
    /\ scratch = NoScratch

\* The operations are given tasks of the catalogue, named by task id.
DefectTaskIds == { t.task_id : t \in DefectTasks }
BulkTaskIds == { t.task_id : t \in BulkTasks }
DefectTask == [id \in DefectTaskIds |-> CHOOSE t \in DefectTasks : t.task_id = id]
BulkTask == [id \in BulkTaskIds |-> CHOOSE t \in BulkTasks : t.task_id = id]

FromTasks ==
    /\ ~created
    /\ calls < MaxCalls
    /\ \E d \in DefectTaskIds, b \in BulkTaskIds, dielectric \in Dielectrics,
          material_id \in MaterialIds :
       \E r \in { from_tasks(now, DefectTask[d], BulkTask[b], dielectric,
                               material_id) } :
             /\ created' = (r.error = "none")
             /\ doc' = r.self
             /\ now' = r.clock
             /\ merged' = merged \cup r.compared
             /\ last' = [op |-> "from_tasks", d_id |-> d,
                         error |-> r.error, n |-> 1, done |-> 1,
                         repeat |-> FALSE]
    /\ calls' = calls + 1
    /\ UNCHANGED fnvars

UpdateOne ==
    /\ created
    /\ calls < MaxCalls
    /\ \E d \in DefectTaskIds, b \in BulkTaskIds, dielectric \in Dielectrics :
       \E r \in { update_one(doc, now, DefectTask[d], BulkTask[b], dielectric) } :
             /\ doc' = r.self
             /\ now' = r.clock
             /\ merged' = merged \cup r.compared
             /\ last' = [op |-> "update_one", d_id |-> d,
                         error |-> r.error, n |-> 1, done |-> 1,
                         repeat |-> r.compared # {} /\ r.compared \subseteq merged]
    /\ calls' = calls + 1
    /\ UNCHANGED created
    /\ UNCHANGED fnvars

SeqsUpTo(S, n) == UNION { [1..k -> S] : k \in 0..n }

\* The argument lists update_many is given: the columns of up to MaxBatch
\* triples, one of the lists possibly longer than the others.
BatchTriples ==
    { <<"d3", "b1", "None">>, <<"d3", "b2", "None">>, <<"d6", "b1", "None">> }

Surplus ==
    { <<<<>>, <<>>, <<>>>>,
      <<<<"d3">>, <<>>, <<>>>>,
      <<<<>>, <<"b1">>, <<"eps">>>> }

BatchArgsOver(triples) ==
    { << [i \in 1..Len(z) |-> DefectTask[z[i][1]]] \o
           [i \in 1..Len(x[1]) |-> DefectTask[x[1][i]]],
         [i \in 1..Len(z) |-> BulkTask[z[i][2]]] \o
           [i \in 1..Len(x[2]) |-> BulkTask[x[2][i]]],
         [i \in 1..Len(z) |-> z[i][3]] \o x[3] >> :
      z \in SeqsUpTo(triples, MaxBatch), x \in Surplus }

BatchArgs == BatchArgsOver(BatchTriples)

UpdateMany ==
    /\ created
    /\ calls < MaxCalls
    /\ \E a \in BatchArgs :
       \E r \in { update_many(doc, now, a[1], a[2], a[3]) } :
             /\ doc' = r.self
             /\ now' = r.clock
             /\ merged' = merged \cup r.compared
             /\ last' = [op |-> "update_many", d_id |-> "none",
                         error |-> r.error,
                         n |-> Min(Len(a[1]), Min(Len(a[2]), Len(a[3]))),
                         done |-> r.done, repeat |-> FALSE]
    /\ calls' = calls + 1
    /\ UNCHANGED created
    /\ UNCHANGED fnvars

Next == FromTasks \/ UpdateOne \/ UpdateMany

Spec == Init /\ [][Next]_vars

----------------------------------------------------------------------------
\* SpecEntry: the functions of the defect entry builder, each applied to the
\* drawn (defect task, bulk task, dielectric) triple.

Charges == {-1, 0, 1}
Lattices == {1, 4}
DisplacementLists == { <<2, 2>>, <<3, 3>>, <<0, 6>> }
InitialSizes == {63, 64, 65}
DistanceLists == { <<>>, <<2, 6>>, <<3, 6>>, <<5, 6>> }
TagSets == { {}, {"2d"} }
\* <<site property names, values of the property "ghost">>
GhostProperties ==
    { <<{}, <<>>>>, <<{"ghost"}, <<FALSE, FALSE>>>>,
      <<{"ghost"}, <<FALSE, TRUE>>>>, <<{"ghost"}, <<TRUE, TRUE>>>> }

EntryTasks ==
    { [task_id |-> "e1", defect |-> IF ads THEN "ads_H" ELSE "v_O",
       run_type |-> "PBE", num_atoms |-> 64, n_initial |-> n0,
       energy |-> -503, charge |-> q, lattice |-> a, frac_coords |-> <<0, 2>>,
       displacements |-> disp, cutoff |-> 1, finder_fpos |-> 2,
       adsorbate |-> ads,
       distances |-> dists, site_properties |-> g[1], ghost |-> g[2],
       tags |-> tags] :
      q \in Charges, tags \in TagSets, g \in GhostProperties,
      a \in Lattices, disp \in DisplacementLists, n0 \in InitialSizes,
      ads \in BOOLEAN,
      dists \in DistanceLists }

EntryArgs ==
    { [kind |-> "entry", defect_task |-> t, bulk_task |-> BulkTask["b1"],
       dielectric |-> e] : t \in EntryTasks, e \in Dielectrics }

InitEntry ==
    /\ created = FALSE
    /\ doc = NoDoc
    /\ now = 1
    /\ calls = 0
    /\ merged = {}
    /\ last = NoCall
    /\ arg \in EntryArgs
    /\ ret = NoRet
    /\ scratch = NoScratch

\* The bundle get_defect_entry_from_tasks hands to the strategies and to the
\* validation: the parameters, "dielectric" when one was given, "defect".
HasBundle(a) ==
    get_parameters_from_tasks(a.defect_task, a.bulk_task).error = "none"

Bundle(a) ==
    LET p0 == get_parameters_from_tasks(a.defect_task, a.bulk_task).parameters
    IN  [p0 EXCEPT
           !.dielectric = IF a.dielectric # "None" THEN a.dielectric ELSE @,
           !.defect = [name |-> get_defect_from_task(a.defect_task),
                       adsorbate |-> a.defect_task.adsorbate]]

Returned(op, r, value) == [op |-> op, error |-> r.error, value |-> value]

GetParameters ==
    /\ arg.kind = "entry"
    /\ scratch.pc = "idle"
    /\ \E r \in { get_parameters_from_tasks(arg.defect_task, arg.bulk_task) } :
          ret' = Returned("get_parameters_from_tasks", r, r.parameters)
    /\ UNCHANGED <<arg, scratch>>
    /\ UNCHANGED docvars

GetFreysoldt ==
    /\ arg.kind = "entry"
    /\ scratch.pc = "idle"
    /\ HasBundle(arg)
    /\ \E r \in { get_freysoldt_correction(Bundle(arg)) } :
          ret' = Returned("get_freysoldt_correction", r,
                          [corr |-> r.corr, met |-> r.met,
                           parameters |-> Bundle(arg)])
    /\ UNCHANGED <<arg, scratch>>
    /\ UNCHANGED docvars

GetCorrection ==
    /\ arg.kind = "entry"
    /\ scratch.pc = "idle"
    /\ HasBundle(arg)
    /\ \E r \in { get_correction_from_parameters(Bundle(arg)) } :
          ret' = Returned("get_correction_from_parameters", r,
                          [corrections |-> r.corrections,
                           metadata |-> r.metadata, parts |-> r.parts])
    /\ UNCHANGED <<arg, scratch>>
    /\ UNCHANGED docvars

GetDefectEntry ==
    /\ arg.kind = "entry"
    /\ scratch.pc = "idle"
    /\ \E r \in { get_defect_entry_from_tasks(
                       arg.defect_task, arg.bulk_task,
                       get_defect_from_task(arg.defect_task), arg.dielectric) } :
          ret' = Returned("get_defect_entry_from_tasks", r,
                          [defect_entry |-> r.defect_entry, valid |-> r.valid])
    /\ UNCHANGED <<arg, scratch>>
    /\ UNCHANGED docvars

AtomicRelaxation ==
    /\ arg.kind = "entry"
    /\ scratch.pc = "idle"
    /\ HasBundle(arg)
    /\ \E r \in { atomic_relaxation(Bundle(arg)) } :
          ret' = Returned("_atomic_relaxation", r,
                          [atomic_relaxation |-> r.flag,
                           inside_sphere |-> r.inside_sphere])
    /\ UNCHANGED <<arg, scratch>>
    /\ UNCHANGED docvars

Desorption ==
    /\ arg.kind = "entry"
    /\ scratch.pc = "idle"
    /\ HasBundle(arg)
    /\ ret' = [op |-> "_desorption", error |-> "none",
               value |-> [desorption |-> desorption(Bundle(arg))]]
    /\ UNCHANGED <<arg, scratch>>
    /\ UNCHANGED docvars

ProcessEntry ==
    /\ arg.kind = "entry"
    /\ scratch.pc = "idle"
    /\ HasBundle(arg)
    /\ \E r \in { process_entry(Bundle(arg)) } :
          ret' = Returned("process_entry", r, r.v)
    /\ UNCHANGED <<arg, scratch>>
    /\ UNCHANGED docvars

\* A variant of leave_with that cleans up only at the end of the block.
leave_with_at_end(dir, raising) == IF raising THEN dir ELSE "released"

\* with ScratchDir("."): __exit__ runs when the block is left, by a return
\* or by an exception.
leave_with(dir, raising) == "released"

\* Lines 298-300: the lattice of the defect potential's structure is
\* assigned the lattice of the bulk potential's structure.
set_defect_lattice(parameters) ==
    [parameters EXCEPT
       !.defect_v_hartree = [lattice |-> parameters.bulk_v_hartree.lattice]]

\* get_freysoldt2d_correction, step by step.  Enter2d: the guard, the
\* dielectric constants (KeyError without the key) and ScratchDir.__enter__.
Enter2d ==
    /\ arg.kind = "entry"
    /\ scratch.pc = "idle"
    /\ ret.op = "none"
    /\ HasBundle(arg)
    /\ IF ~applies_2d(Bundle(arg))
       THEN /\ scratch' = [pc |-> "returned", dir |-> "none", error |-> "none",
                           parameters |-> Bundle(arg)]
            /\ ret' = Returned("get_freysoldt2d_correction",
                               get_freysoldt2d_correction(Bundle(arg)),
                               [corr |-> EmptyDict, met |-> EmptyDict])
       ELSE IF Bundle(arg).dielectric = "absent"
       THEN /\ scratch' = [pc |-> "raised", dir |-> "none", error |-> "KeyError",
                           parameters |-> Bundle(arg)]
            /\ ret' = [op |-> "get_freysoldt2d_correction",
                       error |-> "KeyError",
                       value |-> [corr |-> EmptyDict, met |-> EmptyDict]]
       ELSE /\ scratch' = [pc |-> "in_with", dir |-> "held", error |-> "none",
                           parameters |-> Bundle(arg)]
            /\ UNCHANGED ret
    /\ UNCHANGED arg
    /\ UNCHANGED docvars

\* Lines 298-311: the lattice is set and LOCPOT.ref, LOCPOT.def are written;
\* writing a file can fail.
WritePotentials2d ==
    /\ scratch.pc = "in_with"
    /\ \E fails \in BOOLEAN :
          IF fails
          THEN /\ scratch' = [pc |-> "raised",
                              dir |-> leave_with(scratch.dir, TRUE),
                              error |-> "OSError",
                              parameters |-> set_defect_lattice(scratch.parameters)]
               /\ ret' = [op |-> "get_freysoldt2d_correction",
                          error |-> "OSError",
                          value |-> [corr |-> EmptyDict, met |-> EmptyDict]]
          ELSE /\ scratch' = [scratch EXCEPT
                                !.pc = "written",
                                !.parameters = set_defect_lattice(@)]
               /\ UNCHANGED ret
    /\ UNCHANGED arg
    /\ UNCHANGED docvars

\* Lines 313-322: the correction routine returns or raises.
Routine2d ==
    /\ scratch.pc = "written"
    /\ \E fails \in BOOLEAN :
          IF fails
          THEN /\ scratch' = [pc |-> "raised",
                              dir |-> leave_with(scratch.dir, TRUE),
                              error |-> "RoutineError",
                              parameters |-> scratch.parameters]
               /\ ret' = [op |-> "get_freysoldt2d_correction",
                          error |-> "RoutineError",
                          value |-> [corr |-> EmptyDict, met |-> EmptyDict]]
          ELSE \E r \in { get_freysoldt2d_correction(scratch.parameters) } :
               /\ scratch' = [pc |-> "returned",
                              dir |-> leave_with(scratch.dir, FALSE),
                              error |-> "none",
                              parameters |-> scratch.parameters]
               /\ ret' = Returned("get_freysoldt2d_correction", r,
                                  [corr |-> r.corr, met |-> r.met])
    /\ UNCHANGED arg
    /\ UNCHANGED docvars

NextEntry ==
    \/ GetParameters \/ GetFreysoldt \/ GetCorrection \/ GetDefectEntry
    \/ AtomicRelaxation \/ Desorption \/ ProcessEntry
    \/ Enter2d \/ WritePotentials2d \/ Routine2d

SpecEntry == InitEntry /\ [][NextEntry]_vars

----------------------------------------------------------------------------
\* SpecMaterial: DefectiveMaterialDoc over a drawn list of member documents.

MaxDocs == 3

\* d.get(k): <<d[k]>>, or <<>> for None.
dict_get(d, k) == IF k \in DOMAIN d THEN <<d[k]>> ELSE <<>>

\* A variant of from_docs that takes the timestamp of the last member.
from_docs_last_member(defect_docs, material_id, clock) ==
    IF Len(defect_docs) = 0
    THEN [error |-> "ValueError", self |-> EmptyDict]
    ELSE [error |-> "none",
          self |-> [defect_docs |-> defect_docs,
                    material_id |-> material_id,
                    last_updated |-> defect_docs[Len(defect_docs)].last_updated,
                    created_at |-> clock]]

\* max(d.last_updated for d in defect_docs), from the i-th member on with
\* the largest value seen so far; max() of no value is a ValueError.
RECURSIVE max_last_updated(_, _, _)
max_last_updated(defect_docs, i, best) ==
    IF i > Len(defect_docs) THEN best
    ELSE max_last_updated(defect_docs, i + 1,
                          IF defect_docs[i].last_updated > best
                          THEN defect_docs[i].last_updated ELSE best)

from_docs(defect_docs, material_id, clock) ==
    IF Len(defect_docs) = 0
    THEN [error |-> "ValueError", self |-> EmptyDict]
    ELSE [error |-> "none",
          self |-> [defect_docs |-> defect_docs,
                    material_id |-> material_id,
                    last_updated |->
                        max_last_updated(defect_docs, 2, defect_docs[1].last_updated),
                    created_at |-> clock]]

\* The filter predicates a caller passes, by name.
apply_filter(f, x) ==
    IF f = "intrinsic" THEN x.metadata["defect_origin"] = "intrinsic"
    ELSE \A rt \in DOMAIN x.valid : x.valid[rt]["atomic_relaxation"]

\* all(f(x) for f in filters)
passes(filters, x) == \A j \in 1..Len(filters) : apply_filter(filters[j], x)

\* The loop of lines 501-506 from the i-th member on.
RECURSIVE collect(_, _, _, _, _)
collect(defect_docs, run_type, filters, i, lists) ==
    IF i > Len(defect_docs) THEN lists
    ELSE LET x == defect_docs[i]
         IN  IF passes(filters, x) /\ dict_get(x.defect_entries, run_type) # <<>>
             THEN collect(defect_docs, run_type, filters, i + 1,
                    [defect_entries |->
                        Append(lists.defect_entries, x.defect_entries[run_type]),
                     bulk_entries |->
                        Append(lists.bulk_entries, dict_get(x.bulk_entries, run_type)),
                     vbms |-> Append(lists.vbms, dict_get(x.vbm, run_type))])
             ELSE collect(defect_docs, run_type, filters, i + 1, lists)

NoLists == [defect_entries |-> <<>>, bulk_entries |-> <<>>, vbms |-> <<>>]

\* A variant of get_formation_energy_diagram that applies no filter.
get_formation_energy_diagram_unfiltered(self, run_type, filters) ==
    LET lists == collect(self.defect_docs, run_type, <<>>, 1, NoLists)
    IN  IF Len(lists.bulk_entries) = 0
        THEN [error |-> "IndexError", call |-> EmptyDict]
        ELSE [error |-> "none",
              call |-> [bulk_entry |-> lists.bulk_entries[1],
                        defect_entries |-> lists.defect_entries,
                        vbm |-> lists.vbms[1]]]

\* The arguments MultiFormationEnergyDiagram.with_atomic_entries is called
\* with (atomic_entries and phase_diagram are passed through); filters None
\* or [] is the one filter that accepts every document.
get_formation_energy_diagram(self, run_type, filters) ==
    LET lists == collect(self.defect_docs, run_type, filters, 1, NoLists)
    IN  IF Len(lists.bulk_entries) = 0      \* bulk_entries[0]
        THEN [error |-> "IndexError", call |-> EmptyDict]
        ELSE [error |-> "none",
              call |-> [bulk_entry |-> lists.bulk_entries[1],
                        defect_entries |-> lists.defect_entries,
                        vbm |-> lists.vbms[1]]]

\* Member documents: DefectDocs as from_tasks returns them and as update_one
\* leaves them, at different clock values.  The fifth is left by an
\* update_one that raised at line 119: it has a PBE entry and no PBE vbm.
MemberDocs ==
    { from_tasks(x[1], DefectTask[x[2]], BulkTask["b1"], "None", "mp-1").self :
        x \in { <<1, "d1">>, <<5, "d7">>, <<9, "d2">>, <<3, "d5">> } }
    \cup
    { update_one(
          from_tasks(1, DefectTask[x[1]], BulkTask["b1"], "None", "mp-1").self,
          x[2], DefectTask[x[3]], BulkTask[x[4]], "None").self :
        x \in { <<"d1", 7, "d5", "b1">>, <<"d5", 3, "d3", "b2">> } }

FilterLists ==
    { <<>>, <<"intrinsic">>, <<"relaxed">>, <<"intrinsic", "relaxed">> }

MaterialArgs ==
    { [kind |-> "material", docs |-> docs, run_type |-> rt, filters |-> f] :
      docs \in SeqsUpTo(MemberDocs, MaxDocs), rt \in RunTypes, f \in FilterLists }

InitMaterial ==
    /\ created = FALSE
    /\ doc = NoDoc
    /\ now = 11
    /\ calls = 0
    /\ merged = {}
    /\ last = NoCall
    /\ arg \in MaterialArgs
    /\ ret = NoRet
    /\ scratch = NoScratch

FromDocs ==
    /\ arg.kind = "material"
    /\ ret.op = "none"
    /\ \E material_id \in MaterialIds :
       \E r \in { from_docs(arg.docs, material_id, now) } :
          ret' = Returned("from_docs", r, r.self)
    /\ now' = now + 1
    /\ UNCHANGED <<created, doc, calls, merged, last, arg, scratch>>

\* On the DefectiveMaterialDoc from_docs returned.
GetFormationEnergyDiagram ==
    /\ arg.kind = "material"
    /\ ret.op = "from_docs"
    /\ ret.error = "none"
    /\ \E r \in { get_formation_energy_diagram(ret.value, arg.run_type,
                                                 arg.filters) } :
          ret' = Returned("get_formation_energy_diagram", r, r.call)
    /\ UNCHANGED <<arg, scratch>>
    /\ UNCHANGED docvars

NextMaterial == FromDocs \/ GetFormationEnergyDiagram

SpecMaterial == InitMaterial /\ [][NextMaterial]_vars

----------------------------------------------------------------------------
\* update_many against a caller's own loop.  A document and three argument
\* lists are drawn; update_many is applied to them in one call (its result
\* is ret), and a caller invokes update_one on the document with the
\* position-wise triples, one call per step, in list order, until the
\* shortest list is used up or a call raises (doc, now, calls, last).

BatchCalls ==
    { [kind |-> "batch", doc |-> d, clock |-> 11, defect_tasks |-> a[1],
       bulk_tasks |-> a[2], dielectrics |-> a[3]] :
      d \in MemberDocs,
      a \in BatchArgsOver(BatchTriples \cup { <<"d2", "b1", "None">> }) }

InitBatch ==
    /\ arg \in BatchCalls
    /\ created = TRUE
    /\ doc = arg.doc
    /\ now = arg.clock
    /\ calls = 0
    /\ merged = {}
    /\ last = NoCall
    /\ ret = NoRet
    /\ scratch = NoScratch

CallUpdateMany ==
    /\ arg.kind = "batch"
    /\ ret.op = "none"
    /\ \E r \in { update_many(arg.doc, arg.clock, arg.defect_tasks,
                                arg.bulk_tasks, arg.dielectrics) } :
          ret' = Returned("update_many", r,
                          [self |-> r.self, clock |-> r.clock, done |-> r.done])
    /\ UNCHANGED <<arg, scratch>>
    /\ UNCHANGED docvars

\* The caller's next update_one call, on the triple at position calls + 1.
CallUpdateOne ==
    /\ arg.kind = "batch"
    /\ last.error = "none"
    /\ calls < Len(arg.defect_tasks)
    /\ calls < Len(arg.bulk_tasks)
    /\ calls < Len(arg.dielectrics)
    /\ \E r \in { update_one(doc, now, arg.defect_tasks[calls + 1],
                               arg.bulk_tasks[calls + 1],
                               arg.dielectrics[calls + 1]) } :
          /\ doc' = r.self
          /\ now' = r.clock
          /\ merged' = merged \cup r.compared
          /\ last' = [op |-> "update_one",
                      d_id |-> arg.defect_tasks[calls + 1].task_id,
                      error |-> r.error, n |-> 1, done |-> 1,
                      repeat |-> r.compared # {} /\ r.compared \subseteq merged]
    /\ calls' = calls + 1
    /\ UNCHANGED created
    /\ UNCHANGED fnvars

NextBatch == CallUpdateMany \/ CallUpdateOne

SpecBatch == InitBatch /\ [][NextBatch]_vars

----------------------------------------------------------------------------
\* The canonical record of a run type: the six per-run-type values, each a
\* one-element tuple, or <<>> where the map has no such key.

Get(d, k) == IF k \in DOMAIN d THEN <<d[k]>> ELSE <<>>

CanonicalRecord(self, rt) ==
    [defect_entry |-> Get(self.defect_entries, rt),
     bulk_entry |-> Get(self.bulk_entries, rt),
     defect_id |-> Get(self.defect_ids, rt),
     bulk_id |-> Get(self.bulk_ids, rt),
     vbm |-> Get(self.vbm, rt),
     valid |-> Get(self.valid, rt)]

\* The candidates compared so far for one run type.
MergedFor(rt) == { c \in merged : c.run_type = rt }

NumAtoms(c) == c.defect_entry.sc_entry.num_atoms
Energy(c) == c.defect_entry.sc_entry.energy

\* c is strictly preferred to o by the tie-break (atom count, then energy).
Beats(c, o) ==
    \/ NumAtoms(c) > NumAtoms(o)
    \/ NumAtoms(c) = NumAtoms(o) /\ Energy(c) < Energy(o)

InputTriples == DefectTaskIds \X BulkTaskIds \X Dielectrics

Merge(self, t) == update_one(self, now, DefectTask[t[1]], BulkTask[t[2]], t[3]).self

----------------------------------------------------------------------------
----------------------------------------------------------------------------
\* C2: the canonical defect entry of each run type is the entry of one of the
\* candidates merged for that run type, no merged candidate of the run type
\* has more atoms, and none with as many atoms has a lower energy.
C2_TieBreakCorrect ==
    created =>
        \A rt \in RunTypes :
            MergedFor(rt) # {} =>
                /\ rt \in DOMAIN doc.defect_entries
                /\ \E c \in MergedFor(rt) : c.defect_entry = doc.defect_entries[rt]
                /\ \A c \in MergedFor(rt) :
                     LET e == doc.defect_entries[rt].sc_entry
                     IN  /\ e.num_atoms >= NumAtoms(c)
                         /\ e.num_atoms = NumAtoms(c) => e.energy <= Energy(c)

\* The scenario of the specification: sizes {32, 64, 64} with energies
\* {-50.1, -50.0, -50.3} were merged and the 64-atom entry of -50.3 is
\* canonical.
C2_Witness ==
    /\ created
    /\ { <<NumAtoms(c), Energy(c)>> : c \in MergedFor("PBE") }
         = { <<32, -501>>, <<64, -500>>, <<64, -503>> }
    /\ doc.defect_entries["PBE"].sc_entry = [num_atoms |-> 64, energy |-> -503]

\* The defect task of the last single-triple call.
LastTask == DefectTask[last.d_id]

\* C3: an update_one whose candidate has the atom count and the energy of the
\* canonical entry of its run type leaves the canonical record of that run
\* type as it was.
C3_StableTie ==
    [][ ( /\ last'.op = "update_one"
          /\ calls' = calls + 1
          /\ LastTask'.run_type \in DOMAIN doc.defect_entries
          /\ doc.defect_entries[LastTask'.run_type].sc_entry
               = [num_atoms |-> LastTask'.num_atoms, energy |-> LastTask'.energy] )
        => CanonicalRecord(doc', LastTask'.run_type)
             = CanonicalRecord(doc, LastTask'.run_type) ]_vars

\* update_one returned for a candidate that ties with the canonical entry of
\* another defect task, which is still the canonical one.
C3_Witness ==
    /\ created
    /\ last.op = "update_one"
    /\ last.error = "none"
    /\ ~last.repeat
    /\ doc.defect_entries[LastTask.run_type].sc_entry
         = [num_atoms |-> LastTask.num_atoms, energy |-> LastTask.energy]
    /\ doc.defect_ids[LastTask.run_type] # last.d_id

\* C4: the six per-run-type values of the document are those of one and the
\* same merged candidate.
C4_RecordFromOneCandidate ==
    created =>
        \A rt \in DOMAIN doc.defect_entries :
            \E c \in MergedFor(rt) :
                CanonicalRecord(doc, rt) =
                    [defect_entry |-> <<c.defect_entry>>,
                     bulk_entry |-> <<c.bulk_entry>>,
                     defect_id |-> <<c.defect_id>>,
                     bulk_id |-> <<c.bulk_id>>,
                     vbm |-> <<c.vbm>>,
                     valid |-> <<c.valid>>]

\* C5: the defect task id of every candidate merged so far is in task_ids.
C5_TaskIdsHoldEveryCandidate ==
    created => \A c \in merged : c.defect_id \in BagToSet(doc.task_ids)

\* C6: no task id occurs twice in task_ids, and an update_one whose candidate
\* was merged before leaves the canonical record of every run type as it was.
C6_Idempotent ==
    [][ /\ \A id \in BagToSet(doc'.task_ids) : CopiesIn(id, doc'.task_ids) = 1
        /\ (last'.op = "update_one" /\ calls' = calls + 1 /\ last'.repeat)
             => \A rt \in RunTypes :
                    CanonicalRecord(doc', rt) = CanonicalRecord(doc, rt) ]_vars

\* update_one returned for a candidate that had been merged before; its task
\* id is in task_ids.
C6_Witness ==
    /\ created
    /\ last.op = "update_one"
    /\ last.error = "none"
    /\ last.repeat
    /\ CopiesIn(last.d_id, doc.task_ids) = 1

\* C7: update_many takes up every zipped triple of its lists, also when
\* update_one raised for an earlier one.
C7_BatchContinuesAfterFailure ==
    last.op = "update_many" => last.done = last.n

\* C8: an update_one that raises leaves the document as it was.
C8_FailedMergeLeavesDocument ==
    [][ (last'.op = "update_one" /\ calls' = calls + 1 /\ last'.error # "none")
        => doc' = doc ]_vars

\* C9: an update_one whose candidate is built with a charge state other than
\* the document's charge raises InconsistentChargeError and leaves the
\* document as it was.
C9_ChargeMismatchRejected ==
    [][ ( /\ last'.op = "update_one"
          /\ calls' = calls + 1
          /\ merged' # merged \/ last'.repeat
          /\ LastTask'.charge # doc.charge )
        => (last'.error = "InconsistentChargeError" /\ doc' = doc) ]_vars

\* C10: every canonical defect entry has the document's charge and the
\* document's defect.
C10_OneChargeOneDefect ==
    created =>
        \A rt \in DOMAIN doc.defect_entries :
            /\ doc.defect_entries[rt].charge_state = doc.charge
            /\ doc.defect_entries[rt].defect = doc.defect

----------------------------------------------------------------------------
\* Claims on the defect entry builder, under SpecEntry.

\* What a strategy whose guard fails returns.
NoCorrection == [error |-> "none", corr |-> EmptyDict, met |-> EmptyDict]

Kind(parameters) == IF parameters.is2d THEN "2d" ELSE "3d"

\* The strategies of a get_correction_from_parameters call that returned a
\* non-empty correction mapping.
Contributors(parts) ==
    { i \in 1..Len(parts) : parts[i].error = "none" /\ parts[i].corr # EmptyDict }

\* C11: for every bundle, get_correction_from_parameters returns
\* an empty mapping when the charge is 0, and when the charge is not 0
\* exactly one strategy contributes, the 3-D one for a bundle not flagged 2-D
\* and the 2-D one for a flagged bundle, while the other returns empty
\* corrections and empty metadata.
C11_GuardCompleteness ==
    ret.op = "get_correction_from_parameters" =>
        LET p == Bundle(arg)
            v == ret.value
        IN  /\ p.charge_state = 0 =>
                 ret.error = "none" /\ v.corrections = EmptyDict
            /\ p.charge_state # 0 =>
                 /\ ret.error = "none"
                 /\ Contributors(v.parts) = {IF p.is2d THEN 2 ELSE 1}
                 /\ v.parts[IF p.is2d THEN 1 ELSE 2] = NoCorrection
                 /\ v.corrections = Freysoldt(Kind(p), p)

\* The triple has a ghost site property and an initial structure as long as
\* the final one.
WellFormed(a) ==
    /\ "ghost" \in a.defect_task.site_properties
    /\ a.defect_task.n_initial >= a.defect_task.num_atoms

\* C12: get_defect_entry_from_tasks called with dielectric=None on a
\* well-formed pair of tasks, of any charge, returns an entry without
\* corrections.
C12_MissingDielectricIsSilent ==
    (/\ ret.op = "get_defect_entry_from_tasks"
     /\ arg.dielectric = "None"
     /\ WellFormed(arg))
    => /\ ret.error = "none"
       /\ ret.value.defect_entry.corrections = EmptyDict

\* C13: the atomic-relaxation check, when it returns, gives True for a mean
\* displacement up to and including MAX_ATOMIC_RELAXATION and False above.
C13_RelaxationBoundary ==
    (ret.op = "_atomic_relaxation" /\ ret.error = "none") =>
        LET outside == outside_sphere(Bundle(arg))
        IN  ret.value.atomic_relaxation
              <=> sum_over(arg.defect_task.displacements, outside)
                    <= MAX_ATOMIC_RELAXATION * Cardinality(outside)

\* The check returned True for a mean displacement equal to the threshold.
C13_Witness ==
    /\ ret.op = "_atomic_relaxation"
    /\ ret.error = "none"
    /\ outside_sphere(Bundle(arg)) = {1, 2}
    /\ arg.defect_task.displacements
         = <<MAX_ATOMIC_RELAXATION, MAX_ATOMIC_RELAXATION>>
    /\ ret.value.atomic_relaxation

C16_ScratchScoped ==
    /\ scratch.dir # "none" => (HasBundle(arg) /\ applies_2d(Bundle(arg)))
    /\ scratch.pc \in {"returned", "raised"} => scratch.dir # "held"

\* The correction routine raised inside the block and the directory is
\* released.
C16_Witness ==
    /\ scratch.pc = "raised"
    /\ scratch.error = "RoutineError"
    /\ scratch.dir = "released"

\* C19: get_parameters_from_tasks gives the coordinate of the first tagged
\* site when a site is tagged, and the finder's position for every structure
\* without a tagged site, which includes a structure without the ghost
\* property; it does not raise.
C19_DefectLocation ==
    ret.op = "get_parameters_from_tasks" =>
        LET t == arg.defect_task
            tagged == IF "ghost" \in t.site_properties
                      THEN { i \in 1..Len(t.ghost) : t.ghost[i] }
                      ELSE {}
        IN  /\ ret.error = "none"
            /\ ret.value.defect_frac_sc_coords =
                 IF tagged # {}
                 THEN t.frac_coords[CHOOSE i \in tagged : \A j \in tagged : i <= j]
                 ELSE t.finder_fpos

----------------------------------------------------------------------------
\* Claims on DefectiveMaterialDoc, under SpecMaterial.

\* The members, by position, that satisfy every filter and have a record of
\* the run type.
Selected(a) ==
    { i \in 1..Len(a.docs) :
        /\ \A j \in 1..Len(a.filters) : apply_filter(a.filters[j], a.docs[i])
        /\ a.run_type \in DOMAIN a.docs[i].defect_entries }

\* The k-th smallest element of a set of positions.
Nth(S, k) == CHOOSE i \in S : Cardinality({ j \in S : j <= i }) = k

\* C17: the defect entries passed on are the run type's canonical entries of
\* the selected members, in member order; the bulk entry and the vbm are
\* those of the first selected member.
C17_DiagramSelection ==
    ret.op = "get_formation_energy_diagram" =>
        LET S == Selected(arg)
            rt == arg.run_type
        IN  /\ ret.error = "none" <=> S # {}
            /\ ret.error = "none" =>
                 /\ Len(ret.value.defect_entries) = Cardinality(S)
                 /\ \A k \in 1..Cardinality(S) :
                      ret.value.defect_entries[k]
                        = arg.docs[Nth(S, k)].defect_entries[rt]
                 /\ ret.value.bulk_entry = dict_get(arg.docs[Nth(S, 1)].bulk_entries, rt)
                 /\ ret.value.vbm = dict_get(arg.docs[Nth(S, 1)].vbm, rt)

\* Of three members the first is excluded by a filter, one has no record of
\* the run type, and the remaining one supplied the entry, the bulk entry
\* and the vbm.
C17_Witness ==
    /\ ret.op = "get_formation_energy_diagram"
    /\ ret.error = "none"
    /\ Len(arg.docs) = 3
    /\ Len(ret.value.defect_entries) = 1
    /\ ~passes(arg.filters, arg.docs[1])
    /\ \E i \in 2..3 : arg.run_type \notin DOMAIN arg.docs[i].defect_entries

\* C18: the document from_docs returns has the largest last_updated of its
\* members and the given members in the given order.
C18_FromDocs ==
    (ret.op = "from_docs" /\ ret.error = "none") =>
        /\ ret.value.defect_docs = arg.docs
        /\ \E i \in 1..Len(arg.docs) :
              ret.value.last_updated = arg.docs[i].last_updated
        /\ \A i \in 1..Len(arg.docs) :
              ret.value.last_updated >= arg.docs[i].last_updated

\* from_docs returned for three members of which the second is the latest.
C18_Witness ==
    /\ ret.op = "from_docs"
    /\ ret.error = "none"
    /\ Len(arg.docs) = 3
    /\ arg.docs[2].last_updated > arg.docs[1].last_updated
    /\ arg.docs[2].last_updated > arg.docs[3].last_updated
    /\ ret.value.last_updated = arg.docs[2].last_updated

----------------------------------------------------------------------------
\* C21: an update_one call whose candidate has run type c, whether it
\* returns or raises, leaves the canonical record (defect entry, bulk entry,
\* ids, vbm, validation outcome) of every other run type as it was; and from
\* the document from_tasks returned, merging a candidate of one run type and
\* a candidate of the other gives the same canonical records in either order.
C21_CategoriesIndependent ==
    /\ [][ (last'.op = "update_one" /\ calls' = calls + 1) =>
             \A rt \in RunTypes \ {DefectTask[last'.d_id].run_type} :
                 CanonicalRecord(doc', rt) = CanonicalRecord(doc, rt) ]_vars
    /\ [](created /\ calls = 1 =>
             \A t1 \in InputTriples, t2 \in InputTriples :
                 (DefectTask[t1[1]].run_type = "HSE06"
                    /\ DefectTask[t2[1]].run_type = "PBE") =>
                     \A rt \in RunTypes :
                         CanonicalRecord(Merge(Merge(doc, t1), t2), rt)
                         = CanonicalRecord(Merge(Merge(doc, t2), t1), rt))

\* An update_one call installed an HSE06 record in a document that holds a
\* PBE record.
C21_Witness ==
    /\ created
    /\ last.op = "update_one"
    /\ last.error = "none"
    /\ DefectTask[last.d_id].run_type = "HSE06"
    /\ "PBE" \in DOMAIN doc.defect_entries
    /\ Get(doc.defect_ids, "HSE06") = <<last.d_id>>
    /\ ~last.repeat

----------------------------------------------------------------------------
\* C22: every update_one and update_many call on a created document leaves
\* its charge, defect, name and material_id as from_tasks set them.
C22_IdentityFieldsKept ==
    [][ (created /\ last'.op \in {"update_one", "update_many"}
           /\ calls' = calls + 1) =>
          /\ doc'.charge = doc.charge
          /\ doc'.defect = doc.defect
          /\ doc'.name = doc.name
          /\ doc'.material_id = doc.material_id ]_vars

\* An update_one call installed a candidate whose charge state is not the
\* document's, and the document's charge is still the one of from_tasks.
C22_Witness ==
    /\ created
    /\ last.op = "update_one"
    /\ last.error = "none"
    /\ DefectTask[last.d_id].run_type \in DOMAIN doc.defect_ids
    /\ doc.defect_ids[DefectTask[last.d_id].run_type] = last.d_id
    /\ doc.defect_entries[DefectTask[last.d_id].run_type].charge_state # doc.charge
    /\ doc.material_id = "mp-1"

----------------------------------------------------------------------------
\* C24: after each update_one call that returns, last_updated is the clock
\* value the call read, whether or not the candidate was installed; and no
\* operation on a created document moves last_updated backwards.
C24_LastUpdatedRefreshed ==
    /\ [][ (last'.op = "update_one" /\ calls' = calls + 1
              /\ last'.error = "none") =>
             doc'.last_updated = now ]_vars
    /\ [][ (created /\ created') => doc'.last_updated >= doc.last_updated ]_vars

\* An update_one call returned without installing its candidate, and
\* last_updated is the time of that call, later than the document's creation
\* by from_tasks.
C24_Witness ==
    /\ created
    /\ last.op = "update_one"
    /\ last.error = "none"
    /\ DefectTask[last.d_id].run_type \in DOMAIN doc.defect_ids
    /\ doc.defect_ids[DefectTask[last.d_id].run_type] # last.d_id
    /\ doc.last_updated = now - 2
    /\ doc.last_updated > 1

----------------------------------------------------------------------------
\* C25: created_at keeps the value from_tasks gave it across every later
\* update_one and update_many call.
C25_CreatedAtKept ==
    [][ (created /\ last'.op \in {"update_one", "update_many"}
           /\ calls' = calls + 1) =>
          doc'.created_at = doc.created_at ]_vars

----------------------------------------------------------------------------
\* C28: after from_tasks and after every update_one that returns, the six
\* per-run-type maps have the same key set and defect_ids[rt] is in task_ids
\* for every run type rt; and no operation removes a key of the maps or an
\* element of task_ids.
C28_MapsAligned ==
    /\ []((created /\ last.op \in {"from_tasks", "update_one"}
             /\ last.error = "none") =>
            /\ \A keys \in {DOMAIN doc.bulk_entries, DOMAIN doc.defect_ids,
                            DOMAIN doc.bulk_ids, DOMAIN doc.vbm,
                            DOMAIN doc.valid} :
                   keys = DOMAIN doc.defect_entries
            /\ \A rt \in DOMAIN doc.defect_ids :
                   BagIn(doc.defect_ids[rt], doc.task_ids))
    /\ [][ (created /\ created') =>
             /\ DOMAIN doc.defect_entries \subseteq DOMAIN doc'.defect_entries
             /\ DOMAIN doc.vbm \subseteq DOMAIN doc'.vbm
             /\ DOMAIN doc.valid \subseteq DOMAIN doc'.valid
             /\ BagToSet(doc.task_ids) \subseteq BagToSet(doc'.task_ids) ]_vars

----------------------------------------------------------------------------
----------------------------------------------------------------------------
\* C23: after get_freysoldt_correction or get_freysoldt2d_correction has
\* returned, every value of the parameter bundle it was given, the lattices
\* of the two potential volumes included, is what it was before the call.
C23_StrategiesLeaveBundle ==
    /\ (ret.op = "get_freysoldt_correction" /\ ret.error = "none") =>
           ret.value.parameters = Bundle(arg)
    /\ (ret.op = "get_freysoldt2d_correction" /\ scratch.pc = "returned") =>
           scratch.parameters = Bundle(arg)

----------------------------------------------------------------------------
\* C26: whenever the initial and the final defect structure differ in site
\* count, in either direction, the atomic-relaxation check ends with an
\* error instead of a flag.
C26_SiteCountMismatchFails ==
    (/\ ret.op = "_atomic_relaxation"
     /\ arg.defect_task.n_initial # arg.defect_task.num_atoms)
    => ret.error # "none"

----------------------------------------------------------------------------
\* C27: for every lattice, the sites the atomic-relaxation check leaves out
\* of the mean are exactly the sites within the isolation radius of the
\* defect's position, the Cartesian point the desorption check looks the
\* defect site up at.
C27_SphereAtDefectSite ==
    (ret.op = "_atomic_relaxation" /\ ret.error = "none") =>
        ret.value.inside_sphere
          = get_sites_in_sphere(Bundle(arg), desorption_center(Bundle(arg)),
                                Bundle(arg).cutoff)

----------------------------------------------------------------------------
\* C30: once the caller's loop of update_one calls on the position-wise
\* triples has ended (the shortest list is used up, or a call raised),
\* update_many on the same document and lists has given the same document,
\* clock and exception and has made as many update_one calls; the elements
\* beyond the shortest list cause no error and their task ids do not enter
\* task_ids.
C30_BatchIsSequence ==
    ret.op = "update_many" =>
        LET n == CHOOSE k \in 0..Len(arg.defect_tasks) :
                    /\ k <= Len(arg.bulk_tasks)
                    /\ k <= Len(arg.dielectrics)
                    /\ \/ k = Len(arg.defect_tasks)
                       \/ k = Len(arg.bulk_tasks)
                       \/ k = Len(arg.dielectrics)
        IN  /\ (calls = n \/ last.error # "none") =>
                  /\ ret.value.self = doc
                  /\ ret.value.clock = now
                  /\ ret.error = last.error
                  /\ ret.value.done = calls
            /\ n = 0 => (ret.error = "none" /\ ret.value.self = arg.doc)
            /\ BagToSet(ret.value.self.task_ids)
                 \subseteq BagToSet(arg.doc.task_ids)
                           \cup { arg.defect_tasks[i].task_id : i \in 1..n }

\* Two triples were merged by both, the defect list has a third element, and
\* its task id is not in task_ids.
C30_Witness ==
    /\ ret.op = "update_many"
    /\ ret.error = "none"
    /\ calls = 2
    /\ Len(arg.defect_tasks) = 3
    /\ Len(arg.bulk_tasks) = 2
    /\ ret.value.self = doc
    /\ doc # arg.doc
    /\ ~BagIn(arg.defect_tasks[3].task_id, doc.task_ids)

====
